---------------------------- MODULE Spec2Model ----------------------------
(***************************************************************************)
(* A model of preamble_finder.py: find_preamble_and_analyze_pixels, the    *)
(* bit-stream preamble scanner and header/payload decoder.                 *)
(*                                                                         *)
(* Conventions.  A Python bytes object or str of '0'/'1' characters is a   *)
(* TLA+ sequence; Python index i is TLA+ index i + 1.  A character of a     *)
(* bit string is the number 0 or 1.  A Python int that can exceed the      *)
(* range of the model checker's integers (a decoded 32-bit header field,   *)
(* a difference of two of them) is kept exactly as the pair of its base    *)
(* 65536 digits [hi, lo], i.e. the int hi * 65536 + lo.                     *)
(***************************************************************************)
EXTENDS Integers, Sequences, FiniteSets, TLC

(***************************************************************************)
(* Bounds of the input files that are explored.                            *)
(***************************************************************************)
MaxFrame == 4
MaxPixel == 2
MaxPayload == 3

(***************************************************************************)
(* Program constants.                                                      *)
(***************************************************************************)
HeaderLen == 48
PixelLen == 512
PreambleBytes == 4

preamble_bits ==
    << 0,0,0,1,1,1,1,0,  0,1,1,0,1,0,1,0,  0,0,1,0,1,1,0,0,  0,1,0,0,1,0,0,0 >>

preamble_len == Len(preamble_bits)

header_fields ==
    << "linked_list", "frame_num", "buffer_count", "frame_buffer_count",
       "write_buffer_count", "dropped_buffer_count", "timestamp",
       "write_timestamp", "pixel_count", "battery_voltage_raw",
       "input_voltage_raw", "unix_time" >>

(***************************************************************************)
(* Python built-ins, computed as Python computes them.                     *)
(***************************************************************************)
Pow2(n) == 2 ^ n

\* format(b, "08b"): the 8 binary digits of b, most significant first
Format08b(b) == [i \in 1..8 |-> (b \div Pow2(8 - i)) % 2]

\* s[::-1]
ReverseSeq(s) == [i \in 1..Len(s) |-> s[Len(s) + 1 - i]]

RECURSIVE IntBase2(_)
\* int(s, 2)
IntBase2(s) ==
    IF s = << >> THEN 0
    ELSE 2 * IntBase2(SubSeq(s, 1, Len(s) - 1)) + s[Len(s)]

\* s[a:b] for 0 <= a
Slice(s, a, b) ==
    LET hi == IF b < Len(s) THEN b ELSE Len(s)
    IN  IF a >= hi THEN << >> ELSE SubSeq(s, a + 1, hi)

\* min(.) of a non-empty collection of numbers
MinOfSet(S) == CHOOSE m \in S : \A x \in S : m <= x

MinOfSeq(s) == MinOfSet({s[i] : i \in 1..Len(s)})

\* stream.find(sub, start): the lowest index >= start of sub in stream, or -1
Find(stream, sub, start) ==
    LET hits == {p \in start..(Len(stream) - Len(sub)) :
                    \A j \in 1..Len(sub) : stream[p + j] = sub[j]}
    IN  IF hits = {} THEN -1 ELSE MinOfSet(hits)

\* the mistake of reading the four bytes big-endian
FromBytesBig(w) ==
    [hi |-> w[2] + 256 * w[1], lo |-> w[4] + 256 * w[3]]

\* int.from_bytes(word_bytes, "little") of four bytes
FromBytesLittle(w) ==
    [hi |-> w[3] + 256 * w[4], lo |-> w[1] + 256 * w[2]]

reverse_bits(byte) == IntBase2(ReverseSeq(Format08b(byte)))


(***************************************************************************)
(* Exact arithmetic on ints kept as [hi, lo].                              *)
(***************************************************************************)
IntLess(a, b) == a.hi < b.hi \/ (a.hi = b.hi /\ a.lo < b.lo)

\* b - a for a <= b
IntDiff(b, a) ==
    IF b.lo >= a.lo THEN [hi |-> b.hi - a.hi, lo |-> b.lo - a.lo]
    ELSE [hi |-> b.hi - a.hi - 1, lo |-> b.lo + 65536 - a.lo]

\* n > 1
IntGreaterThanOne(n) == n.hi > 0 \/ n.lo > 1

RECURSIVE Sorted(_)
\* sorted(S): the ascending list of the ints of S
Sorted(S) ==
    IF S = {} THEN << >>
    ELSE LET m == CHOOSE x \in S : \A y \in S : y = x \/ IntLess(x, y)
         IN  << m >> \o Sorted(S \ {m})

(***************************************************************************)
(* State: the local variables of find_preamble_and_analyze_pixels, the     *)
(* control position pc, the text printed so far, and the exception that    *)
(* ended the run, if any.  iterations counts, for the current stream, the  *)
(* iterations of the while loop that found an occurrence.                  *)
(***************************************************************************)
VARIABLES data, bit_stream, pc, stream_idx, pos, byte_pos, bit_offset, count,
          found_positions, header_start, header_data, header_reversed, values,
          pixel_start, pixel_data, frame_pixels, frame_mins, frames, gaps,
          printed, raised, iterations

vars == << data, bit_stream, pc, stream_idx, pos, byte_pos, bit_offset, count,
           found_positions, header_start, header_data, header_reversed, values,
           pixel_start, pixel_data, frame_pixels, frame_mins, frames, gaps,
           printed, raised, iterations >>

scan_locals == << byte_pos, bit_offset, header_start, header_data,
                  header_reversed, values, pixel_start, pixel_data >>

report_vars == << frame_mins, frames, gaps, printed >>

(***************************************************************************)
(* The steps of the scan (lines 134-190).                                  *)
(***************************************************************************)
\* "".join(format(b, "08b") for b in data)
BitStream(d) ==
    LET digits == [k \in 1..Len(d) |-> Format08b(d[k])]
    IN  [i \in 1..(8 * Len(d)) |-> digits[((i - 1) \div 8) + 1][((i - 1) % 8) + 1]]

bit_stream_offset == << 0 >> \o bit_stream

\* the stream of the current pass of "for stream_idx, stream in enumerate(...)"
stream == IF stream_idx = 0 THEN bit_stream ELSE bit_stream_offset

BytePos(idx, p) == IF idx = 0 THEN p \div 8 ELSE (p - 1) \div 8

BitOffset(idx, p) == IF idx = 0 THEN p % 8 ELSE (p - 1) % 8

\* the mistake of recording without looking the pair up
NeverInFoundPositions(pair) == FALSE

InFoundPositions(pair) == \E i \in 1..Len(found_positions) : found_positions[i] = pair

HeaderStart(bp) == bp + PreambleBytes

HeaderData(d, hs) == Slice(d, hs, hs + HeaderLen)

HeaderReversed(hd) == [i \in 1..Len(hd) |-> reverse_bits(hd[i])]

\* the loop over enumerate(header_fields) that fills values
ParseHeader(hr) ==
    LET word(idx) == Slice(hr, idx * 4, idx * 4 + 4)
        present == {idx \in 0..(Len(header_fields) - 1) : Len(word(idx)) = 4}
        index(field) == CHOOSE idx \in present : header_fields[idx + 1] = field
    IN  [field \in {header_fields[idx + 1] : idx \in present} |->
            FromBytesLittle(word(index(field)))]

\* the mistake of counting the header from byte_pos instead of header_start
PixelStartFromBytePos(hs) == hs + HeaderLen - PreambleBytes

PixelStart(hs) == hs + HeaderLen

\* the mistake of reading one byte beyond the payload block
PixelDataOneMore(d, ps) == Slice(d, ps, ps + PixelLen + 1)

PixelData(d, ps) == Slice(d, ps, ps + PixelLen)

\* pos += 1 after an occurrence was recorded
AfterRecorded(p) == p + 1

\* the mistake of continuing without advancing pos
AfterSkippedStays(p) == p

\* pos += 1 after an occurrence that is already in found_positions
AfterSkipped(p) == p + 1

\* the mistake of assigning the list instead of appending to it
AppendToReplacing(fp, key, m) ==
    IF key \in DOMAIN fp THEN [fp EXCEPT ![key] = << m >>]
    ELSE fp @@ (key :> << m >>)

\* frame_pixels[key].append(m) on a defaultdict(list)
AppendTo(fp, key, m) ==
    IF key \in DOMAIN fp THEN [fp EXCEPT ![key] = Append(@, m)]
    ELSE fp @@ (key :> << m >>)

(***************************************************************************)
(* The input files (the bytes f.read() returns, lines 128-129).  A file is *)
(* built from bits and packed MSB first into bytes.  A chunk holds a       *)
(* preamble at bit offset lead, a 48-byte header at the byte-aligned       *)
(* position byte_pos + 4 whose second word decodes to frame number         *)
(* 16843008 + f, and n payload bytes whose minimum is v when n >= 2.       *)
(***************************************************************************)
Ones(n) == [i \in 1..n |-> 1]

Fill(n) == [i \in 1..n |-> 255]

Pack(bits) ==
    [i \in 1..(Len(bits) \div 8) |-> IntBase2(SubSeq(bits, 8 * i - 7, 8 * i))]

PreambleAt(lead) == Pack(Ones(lead) \o preamble_bits \o Ones((8 - lead) % 8))

\* the 32 stream bits that decode (bit-reversed, little-endian) to n < 2^31
WordBits(n) == [j \in 1..32 |-> IF j = 32 THEN 0 ELSE (n \div Pow2(j - 1)) % 2]

Payload(v, n) == [i \in 1..n |-> IF i = 2 THEN v ELSE v + 1 + (i % 3)]

Chunk(lead, f, v, n) ==
    LET pre == PreambleAt(lead)
    IN  pre \o Fill(8 - Len(pre)) \o Pack(WordBits(16843008 + f))
            \o Fill(HeaderLen - 8) \o Payload(v, n)

ChunkLen(n) == PreambleBytes + HeaderLen + n

\* one chunk at every bit offset, cut off after every number of bytes
SingleFiles ==
    { Slice(Chunk(lead, 1, 1, MaxPayload), 0, cut) :
        lead \in 0..7, cut \in 0..ChunkLen(MaxPayload) }

\* two chunks; the second one complete, without payload, or with half a header
DoubleFiles ==
    { Chunk(l[1], f1, v1, MaxPayload) \o Slice(Chunk(l[2], f2, v2, MaxPayload), 0, cut) :
        l \in {<< 0, 5 >>, << 3, 0 >>}, f1 \in 1..MaxFrame, f2 \in 1..MaxFrame,
        v1 \in 1..MaxPixel, v2 \in 1..MaxPixel,
        cut \in {6, PreambleBytes + HeaderLen, ChunkLen(MaxPayload)} }

\* three chunks, for reports with more than one gap; the third one complete
\* or cut off inside its header
TripleFiles ==
    { Chunk(0, f1, 1, 1) \o Chunk(1, f2, 1, 1) \o Slice(Chunk(0, f3, MaxPixel, 1), 0, cut) :
        f1 \in 1..MaxFrame, f2 \in 1..MaxFrame, f3 \in 1..MaxFrame,
        cut \in {6, ChunkLen(1)} }

\* two occurrences that share the three bits 000, followed by tail bytes
OverlapFiles ==
    { Pack(Ones(lead) \o preamble_bits \o SubSeq(preamble_bits, 4, preamble_len)
              \o Ones((11 - lead) % 8)) \o Fill(tail) :
        lead \in 0..7, tail \in {0, HeaderLen + MaxPayload} }

\* files that begin with the last 31 bits of the preamble
ShiftedFiles ==
    { Pack(SubSeq(preamble_bits, 2, preamble_len) \o << b >>) \o Fill(tail) \o rest :
        b \in {0, 1}, tail \in {0, HeaderLen - 1, HeaderLen + MaxPayload},
        rest \in {<< >>, Chunk(2, 2, 1, 1)} }

\* a payload longer than the 512 bytes that are read, ending in a smaller byte
LongFiles ==
    { Chunk(lead, 1, MaxPixel + 1, PixelLen) \o << v >> : lead \in {0, 7}, v \in 1..MaxPixel }

\* files without any preamble
PlainFiles == { [i \in 1..n |-> b] : n \in 0..(PreambleBytes + MaxPayload), b \in {0, 255} }

InputFiles ==
    SingleFiles \cup DoubleFiles \cup TripleFiles \cup OverlapFiles
        \cup ShiftedFiles \cup LongFiles \cup PlainFiles

(***************************************************************************)
(* The state at the call of find_preamble_and_analyze_pixels.  Locals not  *)
(* yet assigned hold an empty value of their type.                         *)
(***************************************************************************)
NoDict == [k \in {} |-> 0]

Init ==
    /\ data \in InputFiles
    /\ bit_stream = << >>
    /\ pc = "read"
    /\ stream_idx = 0
    /\ pos = 0
    /\ byte_pos = 0
    /\ bit_offset = 0
    /\ count = 0
    /\ found_positions = << >>
    /\ header_start = 0
    /\ header_data = << >>
    /\ header_reversed = << >>
    /\ values = NoDict
    /\ pixel_start = 0
    /\ pixel_data = << >>
    /\ frame_pixels = NoDict
    /\ frame_mins = NoDict
    /\ frames = << >>
    /\ gaps = << >>
    /\ printed = << >>
    /\ raised = "none"
    /\ iterations = 0

\* lines 126-142: read the file, build the bit stream, reset the counters
ReadFile ==
    /\ pc = "read"
    /\ bit_stream' = BitStream(data)
    /\ count' = 0
    /\ found_positions' = << >>
    /\ frame_pixels' = NoDict
    /\ stream_idx' = 0
    /\ pc' = "for"
    /\ UNCHANGED << data, pos, scan_locals, report_vars, raised, iterations >>

\* lines 144-145: the next stream of the for loop starts at pos = 0
ForNext ==
    /\ pc = "for"
    /\ stream_idx < 2
    /\ pos' = 0
    /\ iterations' = 0
    /\ pc' = "while"
    /\ UNCHANGED << data, bit_stream, stream_idx, count, found_positions,
                    frame_pixels, scan_locals, report_vars, raised >>

\* lines 146-147: pos = stream.find(preamble_bits, pos)
WhileFind ==
    /\ pc = "while"
    /\ pos' = Find(stream, preamble_bits, pos)
    /\ pc' = "found"
    /\ UNCHANGED << data, bit_stream, stream_idx, count, found_positions,
                    frame_pixels, scan_locals, report_vars, raised, iterations >>

\* lines 148-149: no further occurrence, break
WhileBreak ==
    /\ pc = "found"
    /\ pos = -1
    /\ stream_idx' = stream_idx + 1
    /\ pc' = "for"
    /\ UNCHANGED << data, bit_stream, pos, count, found_positions, frame_pixels,
                    scan_locals, report_vars, raised, iterations >>

\* lines 151-161: an occurrence that is already recorded
WhileSkip ==
    /\ pc = "found"
    /\ pos # -1
    /\ byte_pos' = BytePos(stream_idx, pos)
    /\ bit_offset' = BitOffset(stream_idx, pos)
    /\ InFoundPositions(<< byte_pos', bit_offset' >>)
    /\ pos' = AfterSkipped(pos)
    /\ iterations' = iterations + 1
    /\ pc' = "while"
    /\ UNCHANGED << data, bit_stream, stream_idx, count, found_positions,
                    frame_pixels, header_start, header_data, header_reversed,
                    values, pixel_start, pixel_data, report_vars, raised >>

\* lines 151-190: a new occurrence: record it, decode its header, store the
\* minimum of its payload
WhileRecord ==
    /\ pc = "found"
    /\ pos # -1
    /\ byte_pos' = BytePos(stream_idx, pos)
    /\ bit_offset' = BitOffset(stream_idx, pos)
    /\ ~InFoundPositions(<< byte_pos', bit_offset' >>)
    /\ found_positions' = Append(found_positions, << byte_pos', bit_offset' >>)
    /\ header_start' = HeaderStart(byte_pos')
    /\ header_data' = HeaderData(data, header_start')
    /\ header_reversed' = HeaderReversed(header_data')
    /\ values' = ParseHeader(header_reversed')
    /\ pixel_start' = PixelStart(header_start')
    /\ pixel_data' = PixelData(data, pixel_start')
    /\ IF pixel_data' # << >> /\ "frame_num" \notin DOMAIN values'
       THEN \* values['frame_num'] raises KeyError
            /\ raised' = "KeyError"
            /\ pc' = "error"
            /\ UNCHANGED << frame_pixels, count, pos, iterations >>
       ELSE /\ frame_pixels' =
                 IF pixel_data' # << >>
                 THEN AppendTo(frame_pixels, values'["frame_num"], MinOfSeq(pixel_data'))
                 ELSE frame_pixels
            /\ count' = count + 1
            /\ pos' = AfterRecorded(pos)
            /\ iterations' = iterations + 1
            /\ pc' = "while"
            /\ UNCHANGED raised
    /\ UNCHANGED << data, bit_stream, stream_idx, report_vars >>

\* line 144: the for loop has gone through both streams
ForDone ==
    /\ pc = "for"
    /\ stream_idx = 2
    /\ pc' = "mins"
    /\ UNCHANGED << data, bit_stream, stream_idx, pos, count, found_positions,
                    frame_pixels, scan_locals, report_vars, raised, iterations >>

\* line 193: {frame: min(pixels) for frame, pixels in frame_pixels.items()}
MinPerFrame(fp) == [frame \in DOMAIN fp |-> MinOfSeq(fp[frame])]

FrameMins ==
    /\ pc = "mins"
    /\ frame_mins' = MinPerFrame(frame_pixels)
    /\ pc' = "analysis"
    /\ UNCHANGED << data, bit_stream, stream_idx, pos, count, found_positions,
                    frame_pixels, scan_locals, frames, gaps, printed, raised,
                    iterations >>

\* lines 196-200: frames = sorted(frame_mins.keys()); print first, last, number
FrameAnalysis ==
    /\ pc = "analysis"
    /\ frames' = Sorted(DOMAIN frame_mins)
    /\ frames' # << >>
    /\ printed' = Append(printed, "frame_analysis")
    /\ pc' = "gaps"
    /\ UNCHANGED << data, bit_stream, stream_idx, pos, count, found_positions,
                    frame_pixels, scan_locals, frame_mins, gaps, raised,
                    iterations >>

\* line 198: frames[0] of an empty list raises IndexError
FrameAnalysisFails ==
    /\ pc = "analysis"
    /\ frames' = Sorted(DOMAIN frame_mins)
    /\ frames' = << >>
    /\ raised' = "IndexError"
    /\ pc' = "error"
    /\ UNCHANGED << data, bit_stream, stream_idx, pos, count, found_positions,
                    frame_pixels, scan_locals, frame_mins, gaps, printed,
                    iterations >>

RECURSIVE GapsFrom(_, _)
\* lines 203-207, from index i (0-based) on
GapsFrom(fr, i) ==
    IF i >= Len(fr) - 1 THEN << >>
    ELSE LET diff == IntDiff(fr[i + 2], fr[i + 1])
         IN  (IF IntGreaterThanOne(diff)
              THEN << << fr[i + 1], fr[i + 2], diff >> >>
              ELSE << >>) \o GapsFrom(fr, i + 1)

\* lines 203-214: collect the gaps and report them, or report none
CheckGaps ==
    /\ pc = "gaps"
    /\ gaps' = GapsFrom(frames, 0)
    /\ printed' = Append(printed, IF gaps' # << >> THEN "gaps" ELSE "sequential")
    /\ pc' = "plot"
    /\ UNCHANGED << data, bit_stream, stream_idx, pos, count, found_positions,
                    frame_pixels, scan_locals, frame_mins, frames, raised,
                    iterations >>

\* lines 216-235: list the non-zero minima, plot, print the summary
Finish ==
    /\ pc = "plot"
    /\ printed' = Append(printed, "complete")
    /\ pc' = "done"
    /\ UNCHANGED << data, bit_stream, stream_idx, pos, count, found_positions,
                    frame_pixels, scan_locals, frame_mins, frames, gaps, raised,
                    iterations >>

Next ==
    \/ ReadFile
    \/ ForNext
    \/ WhileFind
    \/ WhileBreak
    \/ WhileSkip
    \/ WhileRecord
    \/ ForDone
    \/ FrameMins
    \/ FrameAnalysis
    \/ FrameAnalysisFails
    \/ CheckGaps
    \/ Finish

Spec == Init /\ [][Next]_vars

(***************************************************************************)
(* What the claims speak of, stated on the file itself and not through the *)
(* scanner's own operators.                                                *)
(***************************************************************************)
\* bit k (from 0) of the file read as a stream of bits, each byte MSB first
FileBit(k) == (data[(k \div 8) + 1] \div Pow2(7 - (k % 8))) % 2

FileBits == 8 * Len(data)

\* the 32 bits of the file that start at bit p are the preamble pattern
OccursAt(p) ==
    /\ p >= 0
    /\ p + 32 <= FileBits
    /\ \A j \in 0..31 : FileBit(p + j) = preamble_bits[j + 1]

Occurrences == {p \in 0..(FileBits - 32) : OccursAt(p)}

RECURSIVE BitsValue(_, _)
\* the number whose binary digits, least significant first, are the n file
\* bits from bit first on
BitsValue(first, n) ==
    IF n = 0 THEN 0 ELSE FileBit(first) + 2 * BitsValue(first + 1, n - 1)

\* the 32 file bits from bit first on, read in reversed order as one unsigned int
ReversedWord(first) == [hi |-> BitsValue(first + 16, 16), lo |-> BitsValue(first, 16)]

\* the frame number decoded for a preamble recorded at byte_pos bp: field 1 of
\* the header that the decoder reads at byte bp + 4
DecodedFrameNum(bp) == ReversedWord(8 * (bp + 8))

\* the indices (from 0) of the payload block data[bp + 52 : bp + 564]
PayloadIndices(bp) == {k \in (bp + 52)..(bp + 563) : k < Len(data)}

Recorded == {found_positions[i] : i \in 1..Len(found_positions)}

RecordedWithPayload == {i \in 1..Len(found_positions) :
                           PayloadIndices(found_positions[i][1]) # {}}

ScanFinished == pc \in {"mins", "analysis", "gaps", "plot", "done"} \/ raised = "IndexError"

MinsComputed == pc \in {"analysis", "gaps", "plot", "done"} \/ raised = "IndexError"

Ended == pc \in {"done", "error"}

RECURSIVE TotalEntries(_)
\* the number of entries over all lists of a dict of lists
TotalEntries(fp) ==
    IF DOMAIN fp = {} THEN 0
    ELSE LET k == CHOOSE x \in DOMAIN fp : TRUE
         IN  Len(fp[k]) + TotalEntries([x \in DOMAIN fp \ {k} |-> fp[x]])

\* C1: after both passes every bit position at which the preamble occurs in
\* the file, byte-aligned or not, overlapping another or not, is in
\* found_positions exactly once as (p div 8, p mod 8).
C1_ScanComplete ==
    ScanFinished =>
        \A p \in Occurrences :
            Cardinality({i \in 1..Len(found_positions) :
                            found_positions[i] = << p \div 8, p % 8 >>}) = 1

C1_Witness ==
    /\ ScanFinished
    /\ \E p, q \in Occurrences : p < q /\ q < p + 32 /\ p % 8 # 0
    /\ Len(found_positions) >= 2

\* C2: every recorded pair names a real occurrence of the preamble in the
\* file: byte_pos >= 0, 0 <= bit_offset <= 7, and the pattern is at bit
\* 8 * byte_pos + bit_offset.
C2_ScanSound ==
    \A pair \in Recorded :
        /\ pair[1] >= 0
        /\ pair[2] \in 0..7
        /\ OccursAt(8 * pair[1] + pair[2])

\* C3: the header decoded for a recorded preamble begins at the first bit
\* after the 32 bits of the preamble, for every bit offset.
C3_HeaderFollowsPreamble ==
    found_positions # << >> =>
        LET last == found_positions[Len(found_positions)]
        IN  8 * header_start = 8 * last[1] + last[2] + 32

\* C4 as claimed: after the scan the number of entries over all lists of
\* frame_pixels equals the number of preambles found (looked at on the files
\* whose recorded pairs are all real occurrences).
C4_OneMinimumPerPreamble ==
    (ScanFinished /\ C2_ScanSound) => TotalEntries(frame_pixels) = Len(found_positions)

\* C4 as amended: every recorded preamble whose payload block is not empty
\* contributes exactly one minimum under the frame number of its header, and
\* one whose payload block is empty contributes none.
C4_OneMinimumPerPayload ==
    ScanFinished =>
        /\ DOMAIN frame_pixels =
               {DecodedFrameNum(found_positions[i][1]) : i \in RecordedWithPayload}
        /\ \A f \in DOMAIN frame_pixels :
               Len(frame_pixels[f]) =
                   Cardinality({i \in RecordedWithPayload :
                                   DecodedFrameNum(found_positions[i][1]) = f})
        /\ TotalEntries(frame_pixels) = Cardinality(RecordedWithPayload)

C4_Witness ==
    /\ ScanFinished
    /\ RecordedWithPayload # {}
    /\ Cardinality(RecordedWithPayload) < Len(found_positions)
    /\ \E f \in DOMAIN frame_pixels : Len(frame_pixels[f]) >= 2

\* C5: frame_mins has exactly the frame numbers decoded for recorded preambles
\* with a non-empty payload block, and maps each to the least byte over the
\* payload blocks of all recorded preambles with that frame number.
C5_FrameMins ==
    MinsComputed =>
        /\ DOMAIN frame_mins =
               {DecodedFrameNum(found_positions[i][1]) : i \in RecordedWithPayload}
        /\ \A f \in DOMAIN frame_mins :
               frame_mins[f] =
                   MinOfSet(UNION {{data[k + 1] : k \in PayloadIndices(found_positions[i][1])} :
                                      i \in {n \in RecordedWithPayload :
                                                DecodedFrameNum(found_positions[n][1]) = f}})

C5_Witness ==
    /\ MinsComputed
    /\ Cardinality(DOMAIN frame_mins) >= 2
    /\ \E f \in DOMAIN frame_pixels :
          /\ Len(frame_pixels[f]) >= 2
          /\ frame_pixels[f][1] < frame_pixels[f][Len(frame_pixels[f])]

\* the ascending list of the distinct frame numbers that have a minimum
FramesWithMinimum == Sorted(DOMAIN frame_mins)

\* gaps holds exactly the triples of consecutive frame numbers that differ by
\* more than 1, in ascending order, and "Frames are sequential" was printed
\* iff all consecutive frame numbers differ by 1
GapReportCorrect ==
    LET fr == FramesWithMinimum
        jumps == {i \in 1..(Len(fr) - 1) : IntGreaterThanOne(IntDiff(fr[i + 1], fr[i]))}
    IN  /\ Len(gaps) = Cardinality(jumps)
        /\ \A i \in jumps :
              \E n \in 1..Len(gaps) :
                  /\ gaps[n] = << fr[i], fr[i + 1], IntDiff(fr[i + 1], fr[i]) >>
                  /\ n = Cardinality({j \in jumps : j <= i})
        /\ (\E n \in 1..Len(printed) : printed[n] = "sequential") <=> jumps = {}

\* C6: when the run has ended, the gaps list and the report of sequential
\* frames are as GapReportCorrect says.
C6_GapReport == Ended => GapReportCorrect

\* the same, for the runs that get as far as the gap check
GapReportWhenReached == pc \in {"plot", "done"} => GapReportCorrect

\* no preamble of the file is followed by a payload byte
NoPreambleWithPayload == \A p \in Occurrences : PayloadIndices(p \div 8) = {}

\* C7: a file without a preamble, or whose preambles have no payload byte
\* after their header, is analysed to the end without an error, with zero
\* unique frames.
C7_MissingPreamblesSkipped ==
    NoPreambleWithPayload =>
        /\ pc # "error"
        /\ pc = "done" => DOMAIN frame_pixels = {}

\* reverse_bits maps 0..255 into 0..255 and is its own inverse (hence onto)
ReverseBitsInvolution ==
    \A b \in 0..255 : reverse_bits(b) \in 0..255 /\ reverse_bits(reverse_bits(b)) = b

\* C8: for the header decoded last, field i is present iff its four bytes lie
\* inside the file, and then its value is the little-endian int of the four
\* bit-reversed bytes, which is the 32 file bits of the word read in reversed
\* order, and lies in 0..2^32-1; reverse_bits is an involution of 0..255.
C8_FieldDecoding ==
    /\ ReverseBitsInvolution
    /\ found_positions # << >> =>
          \A i \in 0..11 :
              LET field == header_fields[i + 1]
                  at == header_start + 4 * i
              IN  IF at + 4 <= Len(data)
                  THEN /\ field \in DOMAIN values
                       /\ values[field].lo =
                              reverse_bits(data[at + 1]) + 256 * reverse_bits(data[at + 2])
                       /\ values[field].hi =
                              reverse_bits(data[at + 3]) + 256 * reverse_bits(data[at + 4])
                       /\ values[field] = ReversedWord(8 * at)
                       /\ values[field].hi \in 0..65535
                       /\ values[field].lo \in 0..65535
                  ELSE field \notin DOMAIN values

C8_Witness ==
    /\ found_positions # << >>
    /\ "frame_num" \in DOMAIN values
    /\ "unix_time" \notin DOMAIN values
    /\ \E f \in DOMAIN values : values[f].hi >= 32768
    /\ \E f \in DOMAIN values : values[f].hi < 32768

AllFields == {header_fields[i] : i \in 1..Len(header_fields)}

\* C9: when the payload block of the preamble recorded last is not empty, its
\* header was decoded from 48 bytes and values holds all 12 fields, and the
\* lookup of values['frame_num'] never fails.
C9_FrameNumPresent ==
    /\ raised # "KeyError"
    /\ (found_positions # << >> /\ pixel_data # << >>) =>
          /\ Len(header_data) = 48
          /\ DOMAIN values = AllFields

C9_Witness ==
    /\ pc = "while"
    /\ Len(found_positions) >= 2
    /\ frame_pixels # NoDict
    /\ pixel_data = << >>
    /\ Len(header_data) < 8
    /\ found_positions[Len(found_positions)][1] + 52 > Len(data)

\* no pair occurs twice in found_positions
NoDuplicates ==
    \A i, j \in 1..Len(found_positions) :
        found_positions[i] = found_positions[j] => i = j

\* the number of bits of the stream of pass idx
StreamBits(idx) == FileBits + idx

\* while a pass runs pos stays within its stream and the pass has made at
\* most one iteration per bit of the stream; when it has ended pos is -1,
\* count is len(found_positions) and found_positions holds no pair twice
PassBounded ==
    /\ pc \in {"while", "found"} =>
          /\ pos \in -1..StreamBits(stream_idx)
          /\ iterations <= StreamBits(stream_idx)
    /\ (pc = "for" /\ stream_idx > 0) =>
          /\ pos = -1
          /\ iterations <= StreamBits(stream_idx - 1)
          /\ count = Len(found_positions)
          /\ NoDuplicates

\* find never moves pos backwards, and an iteration that found an occurrence,
\* recorded or skipped, leaves pos greater than it was
PosIncreases ==
    /\ (pc = "while" /\ pc' = "found") => (pos' = -1 \/ pos' >= pos)
    /\ (pc = "found" /\ pc' = "while") => pos' > pos

\* C10: in each pass pos strictly increases with every iteration, on the
\* recording and on the skipping path, and never leaves the stream, so each
\* pass ends, with pos = -1, after at most one iteration per bit of the
\* stream, and then count = len(found_positions) and no pair is recorded
\* twice.
C10_ScanTerminates == [][PosIncreases]_vars /\ []PassBounded

C10_Witness ==
    /\ pc = "for"
    /\ stream_idx = 2
    /\ iterations >= 2
    /\ count >= 2
    /\ pos = -1

=============================================================================
